---- MODULE Spec2Model ----
(***************************************************************************)
(* A model of go/mac/mac_factory.go: the MAC wrapper over a primitive set  *)
(* (newWrappedMAC, ComputeMAC, VerifyMAC), the process-wide flag           *)
(* enableComputeOldLegacyMac, and the underlying MAC primitive (computeMac *)
(* and verifyMac of the Hmac class that follows it in the same file).      *)
(*                                                                         *)
(* Byte strings are sequences of numbers 0..255.  The primitive set        *)
(* (go/core/primitiveset) and the prefix format (go/core/cryptofmt) are    *)
(* not part of the source file; they are modelled from the specification.  *)
(***************************************************************************)
EXTENDS Integers, Sequences, FiniteSets, TLC

VARIABLES
    ps,       \* the primitive set: [entries: Seq(Entry), primary: index]
    gate,     \* *enableComputeOldLegacyMac
    wrapper,  \* [state: "unbuilt" | "built" | "error", err: STRING]
    held,     \* the tag most recently returned by ComputeMAC, with its data
    last,     \* the most recent ComputeMAC / VerifyMAC call and its outcome
    procs     \* calls in flight on the wrapper (concurrent specification)

vars == <<ps, gate, wrapper, held, last, procs>>

---------------------------------------------------------------------------
(* Bounds and domains                                                      *)

\* The largest number of keys in a primitive set.
MaxKeys == 2

\* The number of concurrent callers, and the largest number of keys of the
\* primitive set they share, in the concurrent specification.
NumProcs == 2
MaxConcKeys == 2

\* cryptofmt.NonRawPrefixSize, read at mac_factory.go:105.
NonRawPrefixSize == 5

Data == {"d1", "d2"}

PrefixTypes == {"RAW", "TINK", "LEGACY", "CRUNCHY"}

\* The error values of mac_factory.go.
errNotAMAC == "mac_factory: not a MAC primitive"
errNotAnMAC == "mac_factory: not an MAC primitive"
errLegacyDisabled == "mac_factory: computation of old LEGACY MACs is disabled"
errInvalidMAC == "mac_factory: invalid mac"
errNoPrimitiveSet == "mac_factory: cannot obtain primitive set"
errSign == "hmac: sign failed"
NoErr == ""

---------------------------------------------------------------------------
(* The underlying primitive: Hmac                                          *)

\* new Hmac(key, tagSize): the key and the tag size are kept as given.
Hmac(key, tagSize) == [mac |-> TRUE, key |-> key, tagSize |-> tagSize]

\* A primitive of another kind (it does not implement tink.MAC).
NotMac == [mac |-> FALSE, key |-> "none", tagSize |-> 0]

KeyNum(key) == IF key = "k1" THEN 0 ELSE 1
DataNum(data) == IF data = "d1" THEN 0 ELSE 1

\* The five bytes of a non-raw output prefix: a format byte (1 for TINK, 0 for
\* LEGACY and CRUNCHY) followed by the key id, big-endian, in four bytes.
PrefixBytes(prefixType, keyId) ==
    IF prefixType = "RAW" THEN << >>
    ELSE << (IF prefixType = "TINK" THEN 1 ELSE 0),
            (keyId \div 16777216) % 256,
            (keyId \div 65536) % 256,
            (keyId \div 256) % 256,
            keyId % 256 >>

\* window.crypto.subtle.sign rejects: the platform call is deterministic in
\* (key, data); here it fails for key k2 on data d2.
SignFails(key, data) == key = "k2" /\ data = "d2"

\* Byte i of window.crypto.subtle.sign({name: HMAC}, key, data).  The bytes are
\* distinct for distinct (key, data, i), except that the output of key k2 on d1
\* begins with five bytes that read as the TINK prefix of key id 1: MAC output
\* is arbitrary bytes and may look like a prefix.
SignByte(key, data, i) ==
    IF key = "k2" /\ data = "d1" /\ i <= NonRawPrefixSize
    THEN PrefixBytes("TINK", 1)[i]
    ELSE 16 + 64 * KeyNum(key) + 16 * DataNum(data) + i

\* Hmac.computeMac: the signature, cut to tagSize bytes; a rejected sign
\* surfaces as an error.
computeMac(prim, data) ==
    IF SignFails(prim.key, data)
    THEN [err |-> errSign, tag |-> << >>]
    ELSE [err |-> NoErr,
          tag |-> [i \in 1..prim.tagSize |-> SignByte(prim.key, data, i)]]

\* Hmac.verifyMac: recompute and compare.
verifyMac(prim, tag, data) ==
    LET c == computeMac(prim, data)
    IN  c.err = NoErr /\ tag = c.tag

---------------------------------------------------------------------------
(* Key entries and the primitive set                                       *)

\* The keys a keyset may hold, as key id and primitive: two MAC keys under the
\* same key id (keysets merged from different sources), the first with a tag
\* of exactly NonRawPrefixSize bytes, and a key of another primitive.
Keys ==
    { [keyId |-> 1, prim |-> Hmac("k1", 5)],
      [keyId |-> 1, prim |-> Hmac("k2", 6)],
      [keyId |-> 2, prim |-> NotMac] }

\* primitiveset.Entry
Entry(k, prefixType) ==
    [keyId |-> k.keyId, prim |-> k.prim, prefixType |-> prefixType,
     prefix |-> PrefixBytes(prefixType, k.keyId)]

EntryDomain == { Entry(k, t) : k \in Keys, t \in PrefixTypes }

\* Every primitive set of 1..MaxKeys entries with one of them primary.
PrimitiveSets ==
    UNION { { [entries |-> es, primary |-> p] : es \in [1..n -> EntryDomain], p \in 1..n }
            : n \in 1..MaxKeys }

Primary(s) == s.entries[s.primary]

RECURSIVE IndicesWith(_, _, _)
\* The indices i >= from of the entries of s whose prefix is `prefix`, in
\* insertion order.
IndicesWith(s, prefix, from) ==
    IF from > Len(s.entries) THEN << >>
    ELSE (IF s.entries[from].prefix = prefix THEN << from >> ELSE << >>)
         \o IndicesWith(s, prefix, from + 1)

\* PrimitiveSet.EntriesForPrefix: the entries stored under exactly this prefix,
\* in insertion order; none when the prefix is unknown.
EntriesForPrefix(s, prefix) == IndicesWith(s, prefix, 1)

\* PrimitiveSet.RawEntries: the entries stored under the empty prefix.
RawEntries(s) == EntriesForPrefix(s, << >>)

---------------------------------------------------------------------------
(* The wrapper: mac_factory.go                                             *)

\* Variant: only the primary is checked.
newWrappedMAC_primaryOnly(s) ==
    IF ~Primary(s).prim.mac
    THEN [state |-> "error", err |-> errNotAMAC]
    ELSE [state |-> "built", err |-> NoErr]

\* newWrappedMAC: the primary, then every entry, must implement tink.MAC.
newWrappedMAC(s) ==
    IF ~Primary(s).prim.mac
    THEN [state |-> "error", err |-> errNotAMAC]
    ELSE IF \E i \in 1..Len(s.entries) : ~s.entries[i].prim.mac
    THEN [state |-> "error", err |-> errNotAnMAC]
    ELSE [state |-> "built", err |-> NoErr]

\* A call of a primitive, as the wrapper makes it: which entry, with which tag.
Invocation(i, tag) == [entry |-> i, tag |-> tag]

\* Variant: the test of the flag is inverted.
legacyBlocked_flagInverted(primary, flag) ==
    primary.prefixType = "LEGACY" /\ flag

\* ComputeMAC, lines 82-87: a LEGACY primary with the flag off.
legacyBlocked(primary, flag) ==
    primary.prefixType = "LEGACY" /\ ~flag

\* Variant: the prefix is left out.
framed_noPrefix(primary, mac) == mac

\* ComputeMAC, lines 92-95: the primary's prefix, then the computed mac.
framed(primary, mac) == primary.prefix \o mac

\* Variant: the first entry of the set is used in place of the primary.
ComputeMAC_firstEntry(s, flag, data) ==
    LET primary == s.entries[1]
    IN  IF ~primary.prim.mac
        THEN [err |-> errNotAMAC, tag |-> << >>, calls |-> << >>]
        ELSE IF legacyBlocked(primary, flag)
        THEN [err |-> errLegacyDisabled, tag |-> << >>, calls |-> << >>]
        ELSE LET m == computeMac(primary.prim, data)
                 called == << Invocation(1, << >>) >>
             IN  IF m.err # NoErr
                 THEN [err |-> m.err, tag |-> << >>, calls |-> called]
                 ELSE [err |-> NoErr, tag |-> framed(primary, m.tag),
                       calls |-> called]

\* wrappedMAC.ComputeMAC, given the value read from the flag.  The result
\* carries the error, the returned bytes and the primitives invoked.
ComputeMAC(s, flag, data) ==
    LET primary == Primary(s)
    IN  IF ~primary.prim.mac
        THEN [err |-> errNotAMAC, tag |-> << >>, calls |-> << >>]
        ELSE IF legacyBlocked(primary, flag)
        THEN [err |-> errLegacyDisabled, tag |-> << >>, calls |-> << >>]
        ELSE LET m == computeMac(primary.prim, data)
                 called == << Invocation(s.primary, << >>) >>
             IN  IF m.err # NoErr
                 THEN [err |-> m.err, tag |-> << >>, calls |-> called]
                 ELSE [err |-> NoErr, tag |-> framed(primary, m.tag),
                       calls |-> called]

\* Variant: a tag of exactly prefixSize bytes passes.
tooShort_strict(mac) == Len(mac) < NonRawPrefixSize

\* VerifyMAC, lines 105-108: a tag no longer than the prefix is rejected.
tooShort(mac) == Len(mac) <= NonRawPrefixSize

\* Variant: the lookup leaves out the format byte and matches on the key id.
candidates_noFormatByte(s, mac) ==
    LET key == SubSeq(mac, 2, NonRawPrefixSize)
        RECURSIVE pick(_)
        pick(i) ==
            IF i > Len(s.entries) THEN << >>
            ELSE (IF s.entries[i].prefix # << >>
                     /\ SubSeq(s.entries[i].prefix, 2, NonRawPrefixSize) = key
                  THEN << i >> ELSE << >>) \o pick(i + 1)
    IN  pick(1)

\* VerifyMAC, lines 111-113: the entries stored under the first prefixSize
\* bytes of the tag.
candidates(s, mac) == EntriesForPrefix(s, SubSeq(mac, 1, NonRawPrefixSize))

\* Variant: the raw entries are given the tag without its first bytes.
rawArgument_noPrefix(mac) == SubSeq(mac, NonRawPrefixSize + 1, Len(mac))

\* VerifyMAC, line 136: the raw entries are given the whole tag.
rawArgument(mac) == mac

\* Variant: only the first entry of the list is tried.
verifyLoop_firstOnly(s, entries, i, mac, data) ==
    IF i > Len(entries)
    THEN [status |-> "none", hit |-> 0, calls |-> << >>]
    ELSE LET p == s.entries[entries[i]].prim
             call == << Invocation(entries[i], mac) >>
         IN  IF ~p.mac
             THEN [status |-> "notmac", hit |-> 0, calls |-> << >>]
             ELSE IF verifyMac(p, mac, data)
             THEN [status |-> "ok", hit |-> entries[i], calls |-> call]
             ELSE [status |-> "none", hit |-> 0, calls |-> call]

RECURSIVE verifyLoop(_, _, _, _, _)
\* One of the two loops of VerifyMAC, from position i of `entries` on: a
\* non-MAC entry ends the call, the first entry that verifies ends it with
\* success, otherwise the loop runs out.
verifyLoop(s, entries, i, mac, data) ==
    IF i > Len(entries)
    THEN [status |-> "none", hit |-> 0, calls |-> << >>]
    ELSE LET p == s.entries[entries[i]].prim
             call == << Invocation(entries[i], mac) >>
         IN  IF ~p.mac
             THEN [status |-> "notmac", hit |-> 0, calls |-> << >>]
             ELSE IF verifyMac(p, mac, data)
             THEN [status |-> "ok", hit |-> entries[i], calls |-> call]
             ELSE LET rest == verifyLoop(s, entries, i + 1, mac, data)
                  IN  [rest EXCEPT !.calls = call \o @]

\* Variant: an unknown prefix is reported with an error of its own.
VerifyMAC_unknownPrefixError(s, mac, data) ==
    IF tooShort(mac)
    THEN [err |-> errInvalidMAC, hit |-> 0, calls |-> << >>]
    ELSE
    LET macNoPrefix == SubSeq(mac, NonRawPrefixSize + 1, Len(mac))
        r1 == verifyLoop(s, candidates(s, mac), 1, macNoPrefix, data)
        r2 == verifyLoop(s, RawEntries(s), 1, rawArgument(mac), data)
    IN  IF r1.status = "ok"
        THEN [err |-> NoErr, hit |-> r1.hit, calls |-> r1.calls]
        ELSE IF r2.status = "ok"
        THEN [err |-> NoErr, hit |-> r2.hit, calls |-> r1.calls \o r2.calls]
        ELSE IF candidates(s, mac) = << >>
        THEN [err |-> "mac_factory: unknown prefix", hit |-> 0,
              calls |-> r1.calls \o r2.calls]
        ELSE [err |-> errInvalidMAC, hit |-> 0, calls |-> r1.calls \o r2.calls]

\* wrappedMAC.VerifyMAC.  The result carries the error (NoErr for nil), the
\* primitives invoked, in order, and the entry that accepted (0 for none).
VerifyMAC(s, mac, data) ==
    IF tooShort(mac)
    THEN [err |-> errInvalidMAC, hit |-> 0, calls |-> << >>]
    ELSE
    LET macNoPrefix == SubSeq(mac, NonRawPrefixSize + 1, Len(mac))
        r1 == verifyLoop(s, candidates(s, mac), 1, macNoPrefix, data)
    IN  IF r1.status = "ok"
        THEN [err |-> NoErr, hit |-> r1.hit, calls |-> r1.calls]
        ELSE IF r1.status = "notmac"
        THEN [err |-> errNotAnMAC, hit |-> 0, calls |-> r1.calls]
        ELSE
        LET r2 == verifyLoop(s, RawEntries(s), 1, rawArgument(mac), data)
        IN  IF r2.status = "ok"
            THEN [err |-> NoErr, hit |-> r2.hit, calls |-> r1.calls \o r2.calls]
            ELSE IF r2.status = "notmac"
            THEN [err |-> errNotAnMAC, hit |-> 0, calls |-> r1.calls \o r2.calls]
            ELSE [err |-> errInvalidMAC, hit |-> 0, calls |-> r1.calls \o r2.calls]

---------------------------------------------------------------------------
(* The callers                                                             *)

NoEntry == [keyId |-> 0, prim |-> NotMac, prefixType |-> "RAW", prefix |-> << >>]
NoHeld == [has |-> FALSE, tag |-> << >>, data |-> "d1", key |-> NoEntry]
NoCall ==
    [op |-> "none", data |-> "d1", mac |-> << >>, flag |-> TRUE,
     err |-> NoErr, tag |-> << >>, hit |-> 0, calls |-> << >>]

\* The last byte of a tag altered (a corrupted body).
Corrupt(tag) ==
    IF tag = << >> THEN << >>
    ELSE [tag EXCEPT ![Len(tag)] = (@ + 1) % 256]

\* The first byte of a tag altered (another format byte).
OtherFormat(tag) ==
    IF tag = << >> THEN << >>
    ELSE [tag EXCEPT ![1] = IF @ = 1 THEN 0 ELSE 1]

Min(a, b) == IF a <= b THEN a ELSE b

OtherData(data) == IF data = "d1" THEN "d2" ELSE "d1"

\* A tag no key produced: its first bytes are no known prefix.
Forged == << 9, 9, 9, 9, 9, 9 >>

\* What a caller presents to VerifyMAC, as pairs <<mac, data>>: with the data
\* it was computed over, the tag it holds, that tag with its body corrupted,
\* cut to the prefix size, with the prefix stripped, with another format byte,
\* and a tag no key produced; and the tag it holds with other data.
VerifyInputs(h) ==
    IF h.has
    THEN { << m, h.data >> :
             m \in { h.tag, Corrupt(h.tag),
                     SubSeq(h.tag, 1, Min(NonRawPrefixSize, Len(h.tag))),
                     SubSeq(h.tag, NonRawPrefixSize + 1, Len(h.tag)),
                     OtherFormat(h.tag), Forged } }
         \cup { << h.tag, OtherData(h.data) >> }
    ELSE { << Forged, d >> : d \in Data }

Init ==
    /\ ps \in PrimitiveSets
    /\ gate = TRUE
    /\ wrapper = [state |-> "unbuilt", err |-> NoErr]
    /\ held = NoHeld
    /\ last = NoCall
    /\ procs = << >>

\* mac.New / NewWithKeyManager: the handle yields the primitive set, or fails
\* to; the set is wrapped.
New ==
    /\ wrapper.state = "unbuilt"
    /\ \E obtained \in BOOLEAN :
          wrapper' = IF obtained THEN newWrappedMAC(ps)
                     ELSE [state |-> "error", err |-> errNoPrimitiveSet]
    /\ UNCHANGED <<ps, gate, held, last, procs>>

\* The flag --enable_compute_old_legacy_mac is set to b.
SetFlag(b) ==
    /\ gate # b
    /\ gate' = b
    /\ UNCHANGED <<ps, wrapper, held, last, procs>>

\* A caller computes a MAC over `data` and holds what the call returned.
CallComputeMAC(data) ==
    /\ wrapper.state = "built"
    /\ LET r == ComputeMAC(ps, gate, data)
       IN  /\ last' = [op |-> "compute", data |-> data, mac |-> << >>,
                       flag |-> gate, err |-> r.err, tag |-> r.tag,
                       hit |-> 0, calls |-> r.calls]
           /\ held' = IF r.err = NoErr
                      THEN [has |-> TRUE, tag |-> r.tag, data |-> data,
                            key |-> Primary(ps)]
                      ELSE NoHeld
    /\ UNCHANGED <<ps, gate, wrapper, procs>>

\* A caller verifies `mac` against `data`.
CallVerifyMAC(mac, data) ==
    /\ wrapper.state = "built"
    /\ LET r == VerifyMAC(ps, mac, data)
       IN  last' = [op |-> "verify", data |-> data, mac |-> mac,
                    flag |-> gate, err |-> r.err, tag |-> << >>,
                    hit |-> r.hit, calls |-> r.calls]
    /\ UNCHANGED <<ps, gate, wrapper, held, procs>>

Next ==
    \/ New
    \/ \E b \in BOOLEAN : SetFlag(b)
    \/ \E d \in Data : CallComputeMAC(d)
    \/ \E in \in VerifyInputs(held) : CallVerifyMAC(in[1], in[2])

Spec == Init /\ [][Next]_vars

---------------------------------------------------------------------------
(* Key rotation: a later wrapper over an updated keyset                    *)

RemoveAt(seq, i) == SubSeq(seq, 1, i - 1) \o SubSeq(seq, i + 1, Len(seq))

\* A new wrapper is built over the updated set; it has served no call yet.
\* The caller keeps the tag it holds.
Rebuilt(s) ==
    /\ ps' = s
    /\ wrapper' = newWrappedMAC(s)
    /\ last' = NoCall
    /\ UNCHANGED <<gate, held, procs>>

\* A key is added to the keyset, after the keys it holds.
AddKey(e) ==
    /\ wrapper.state # "unbuilt"
    /\ Len(ps.entries) < MaxKeys
    /\ Rebuilt([ps EXCEPT !.entries = Append(@, e)])

\* Another key of the keyset is made primary.
SetPrimary(i) ==
    /\ wrapper.state # "unbuilt"
    /\ i \in 1..Len(ps.entries)
    /\ i # ps.primary
    /\ Rebuilt([ps EXCEPT !.primary = i])

\* A key other than the primary is removed from the keyset.
DeleteKey(i) ==
    /\ wrapper.state # "unbuilt"
    /\ i \in 1..Len(ps.entries)
    /\ i # ps.primary
    /\ Rebuilt([entries |-> RemoveAt(ps.entries, i),
                primary |-> IF i < ps.primary THEN ps.primary - 1 ELSE ps.primary])

\* The caller verifies the tag it holds against the data it was computed over.
VerifyHeld ==
    /\ held.has
    /\ CallVerifyMAC(held.tag, held.data)

NextRot ==
    \/ New
    \/ \E b \in BOOLEAN : SetFlag(b)
    \/ \E d \in Data : CallComputeMAC(d)
    \/ \E e \in EntryDomain : AddKey(e)
    \/ \E i \in 1..MaxKeys : SetPrimary(i)
    \/ \E i \in 1..MaxKeys : DeleteKey(i)
    \/ VerifyHeld

SpecRot == Init /\ [][NextRot]_vars

---------------------------------------------------------------------------
(* Concurrent callers on one wrapper                                       *)
(* A call is cut where it reads what another goroutine may write: the flag *)
(* is read once, at lines 82-83 of ComputeMAC; VerifyMAC reads no shared   *)
(* mutable state and is cut between its two loops.                         *)

Procs == 1..NumProcs

Idle ==
    [pc |-> "idle", op |-> "none", data |-> "d1", mac |-> << >>,
     err |-> NoErr, tag |-> << >>]

\* ComputeMAC, lines 77-87: the capability check and the legacy check, with
\* the flag as read now.  "go" when the call goes on to compute.
computeBegin(s, flag) ==
    LET primary == Primary(s)
    IN  IF ~primary.prim.mac THEN errNotAMAC
        ELSE IF primary.prefixType = "LEGACY" /\ ~flag THEN errLegacyDisabled
        ELSE "go"

\* ComputeMAC, lines 88-95: the primary computes, the prefix is put in front.
computeFinish(s, data) ==
    LET primary == Primary(s)
        m == computeMac(primary.prim, data)
    IN  IF m.err # NoErr
        THEN [err |-> m.err, tag |-> << >>]
        ELSE [err |-> NoErr, tag |-> primary.prefix \o m.tag]

\* VerifyMAC, lines 105-125: the length check and the loop over the entries
\* stored under the tag's prefix.  "raw" when the call goes on to the raw
\* entries.
verifyBegin(s, mac, data) ==
    IF Len(mac) <= NonRawPrefixSize THEN errInvalidMAC
    ELSE LET r == verifyLoop(s, EntriesForPrefix(s, SubSeq(mac, 1, NonRawPrefixSize)),
                             1, SubSeq(mac, NonRawPrefixSize + 1, Len(mac)), data)
         IN  IF r.status = "ok" THEN NoErr
             ELSE IF r.status = "notmac" THEN errNotAnMAC
             ELSE "raw"

\* Variant: the raw entries are not tried while the flag is off.
verifyFinish_gated(s, mac, data) ==
    LET r == verifyLoop(s, RawEntries(s), 1, mac, data)
    IN  IF ~gate THEN errInvalidMAC
        ELSE IF r.status = "ok" THEN NoErr
        ELSE IF r.status = "notmac" THEN errNotAnMAC
        ELSE errInvalidMAC

\* VerifyMAC, lines 127-143: the loop over the raw entries.
verifyFinish(s, mac, data) ==
    LET r == verifyLoop(s, RawEntries(s), 1, mac, data)
    IN  IF r.status = "ok" THEN NoErr
        ELSE IF r.status = "notmac" THEN errNotAnMAC
        ELSE errInvalidMAC

\* The keys of the shared set: a LEGACY key and a RAW key.
ConcEntries ==
    { Entry([keyId |-> 1, prim |-> Hmac("k1", 5)], "LEGACY"),
      Entry([keyId |-> 1, prim |-> Hmac("k2", 6)], "RAW") }

ConcSets ==
    UNION { { [entries |-> es, primary |-> p] : es \in [1..n -> ConcEntries], p \in 1..n }
            : n \in 1..MaxConcKeys }

\* What the callers present to VerifyMAC: the tags issued under the keys of
\* the set, each with its data, and a tag no key produced.
IssuedInputs(s) ==
    { << s.entries[i].prefix \o computeMac(s.entries[i].prim, d).tag, d >> :
        i \in { j \in 1..Len(s.entries) : s.entries[j].prim.mac }, d \in Data }
    \cup { << Forged, "d1" >> }

InitConc ==
    /\ ps \in ConcSets
    /\ gate = TRUE
    /\ wrapper = newWrappedMAC(ps)
    /\ held = NoHeld
    /\ last = NoCall
    /\ procs = [p \in Procs |-> Idle]

Finished(p, op, data, mac, err, tag) ==
    procs' = [procs EXCEPT ![p] = [pc |-> "done", op |-> op, data |-> data,
                                   mac |-> mac, err |-> err, tag |-> tag]]

\* Caller p enters ComputeMAC(data) and reads the flag.
ComputeBegin(p, data) ==
    /\ wrapper.state = "built"
    /\ procs[p].pc = "idle"
    /\ LET b == computeBegin(ps, gate)
       IN  IF b = "go"
           THEN procs' = [procs EXCEPT ![p] = [Idle EXCEPT !.pc = "computing",
                                                 !.op = "compute", !.data = data]]
           ELSE Finished(p, "compute", data, << >>, b, << >>)
    /\ UNCHANGED <<ps, gate, wrapper, held, last>>

\* Caller p computes and frames the tag.
ComputeFinish(p) ==
    /\ procs[p].pc = "computing"
    /\ LET r == computeFinish(ps, procs[p].data)
       IN  Finished(p, "compute", procs[p].data, << >>, r.err, r.tag)
    /\ UNCHANGED <<ps, gate, wrapper, held, last>>

\* Caller p enters VerifyMAC(mac, data) and tries the prefixed entries.
VerifyBegin(p, mac, data) ==
    /\ wrapper.state = "built"
    /\ procs[p].pc = "idle"
    /\ LET b == verifyBegin(ps, mac, data)
       IN  IF b = "raw"
           THEN procs' = [procs EXCEPT ![p] = [Idle EXCEPT !.pc = "raw",
                                                 !.op = "verify", !.data = data,
                                                 !.mac = mac]]
           ELSE Finished(p, "verify", data, mac, b, << >>)
    /\ UNCHANGED <<ps, gate, wrapper, held, last>>

\* Caller p tries the raw entries.
VerifyFinish(p) ==
    /\ procs[p].pc = "raw"
    /\ Finished(p, "verify", procs[p].data, procs[p].mac,
                verifyFinish(ps, procs[p].mac, procs[p].data), << >>)
    /\ UNCHANGED <<ps, gate, wrapper, held, last>>

\* Caller p takes the result and is free for another call.
Return(p) ==
    /\ procs[p].pc = "done"
    /\ procs' = [procs EXCEPT ![p] = Idle]
    /\ UNCHANGED <<ps, gate, wrapper, held, last>>

NextConc ==
    \/ \E b \in BOOLEAN : SetFlag(b)
    \/ \E p \in Procs : \E d \in Data : ComputeBegin(p, d)
    \/ \E p \in Procs : ComputeFinish(p)
    \/ \E p \in Procs : \E in \in IssuedInputs(ps) : VerifyBegin(p, in[1], in[2])
    \/ \E p \in Procs : VerifyFinish(p)
    \/ \E p \in Procs : Return(p)

SpecConc == InitConc /\ [][NextConc]_vars

---------------------------------------------------------------------------
(* Properties of the sequential specification                              *)

\* The last call verified the tag the caller holds against the data it was
\* computed over.
VerifiedHeld ==
    /\ last.op = "verify"
    /\ held.has
    /\ last.mac = held.tag
    /\ last.data = held.data

\* The prefixed entries that accept the body of `mac`, and the raw entries
\* that accept the whole of it.
PrefixedAccepting(s, mac, data) ==
    { i \in 1..Len(s.entries) :
        /\ s.entries[i].prefix # << >>
        /\ s.entries[i].prefix = SubSeq(mac, 1, NonRawPrefixSize)
        /\ verifyMac(s.entries[i].prim,
                     SubSeq(mac, NonRawPrefixSize + 1, Len(mac)), data) }
RawAccepting(s, mac, data) ==
    { i \in 1..Len(s.entries) :
        /\ s.entries[i].prefix = << >>
        /\ verifyMac(s.entries[i].prim, mac, data) }

\* C1, as stated: whatever the primary's prefix type and the length of the
\* underlying tag, a tag ComputeMAC returned for data D is accepted by
\* VerifyMAC with D.
C1_RoundTripAnyLength ==
    VerifiedHeld => last.err = NoErr

\* C1, amended: a tag ComputeMAC returned for data D that is longer than
\* NonRawPrefixSize is accepted by VerifyMAC with D, whatever the primary's
\* prefix type and the value of the flag.
C1_RoundTrip ==
    (VerifiedHeld /\ Len(held.tag) > NonRawPrefixSize) => last.err = NoErr

\* A RAW primary's tag of more than NonRawPrefixSize bytes has been verified.
C1_Witness ==
    /\ VerifiedHeld
    /\ Len(held.tag) > NonRawPrefixSize
    /\ held.key.prefixType = "RAW"
    /\ last.err = NoErr

\* C2: on a built wrapper every VerifyMAC call returns nil or errInvalidMAC;
\* the "not an MAC primitive" error of the loops is never returned.
C2_ErrorUniformity ==
    last.op = "verify" => last.err \in {NoErr, errInvalidMAC}

\* A tag with a known prefix and a wrong body has been rejected after its
\* entry was tried.
C2_Witness ==
    /\ last.op = "verify"
    /\ last.err = errInvalidMAC
    /\ \E k \in 1..Len(last.calls) :
           ps.entries[last.calls[k].entry].prefix # << >>

\* C3: a tag of at most NonRawPrefixSize bytes is rejected with errInvalidMAC
\* and no primitive is invoked, whatever the primitive set.
C3_ShortTagRejected ==
    (last.op = "verify" /\ Len(last.mac) <= NonRawPrefixSize)
        => (last.err = errInvalidMAC /\ last.calls = << >>)

\* An all-RAW set has rejected a short tag that one of its primitives accepts.
C3_Witness ==
    /\ last.op = "verify"
    /\ Len(last.mac) <= NonRawPrefixSize
    /\ \A i \in 1..Len(ps.entries) : ps.entries[i].prefixType = "RAW"
    /\ RawAccepting(ps, last.mac, last.data) # {}
    /\ last.err = errInvalidMAC

\* C4, as stated: with a LEGACY primary ComputeMAC fails with the
\* legacy-disabled error, invoking nothing, when the flag is off; when the
\* flag is on the call succeeds and its tag is accepted by VerifyMAC; with
\* any other primary the flag does not change the result.
C4_LegacyGateAlwaysSucceeds ==
    /\ (last.op = "compute" /\ Primary(ps).prefixType = "LEGACY" /\ ~last.flag)
          => (last.err = errLegacyDisabled /\ last.calls = << >>)
    /\ (last.op = "compute" /\ Primary(ps).prefixType = "LEGACY" /\ last.flag)
          => last.err = NoErr
    /\ (VerifiedHeld /\ held.key.prefixType = "LEGACY") => last.err = NoErr
    /\ (last.op = "compute" /\ Primary(ps).prefixType # "LEGACY")
          => LET r == ComputeMAC(ps, ~last.flag, last.data)
             IN  last.err = r.err /\ last.tag = r.tag /\ last.calls = r.calls

\* C4, amended: with a LEGACY primary ComputeMAC fails with the
\* legacy-disabled error, invoking nothing, when the flag is off; when the
\* flag is on the call fails only if the primary's computeTag fails, with
\* that error, and a tag it returns that is longer than NonRawPrefixSize is
\* accepted by VerifyMAC; with any other primary the flag does not change
\* the result.
C4_LegacyGate ==
    /\ (last.op = "compute" /\ Primary(ps).prefixType = "LEGACY" /\ ~last.flag)
          => (last.err = errLegacyDisabled /\ last.calls = << >>)
    /\ (last.op = "compute" /\ Primary(ps).prefixType = "LEGACY" /\ last.flag)
          => last.err = computeMac(Primary(ps).prim, last.data).err
    /\ (VerifiedHeld /\ held.key.prefixType = "LEGACY"
            /\ Len(held.tag) > NonRawPrefixSize) => last.err = NoErr
    /\ (last.op = "compute" /\ Primary(ps).prefixType # "LEGACY")
          => LET r == ComputeMAC(ps, ~last.flag, last.data)
             IN  last.err = r.err /\ last.tag = r.tag /\ last.calls = r.calls

\* A LEGACY primary has refused to compute with the flag off.
C4_Witness ==
    /\ last.op = "compute"
    /\ Primary(ps).prefixType = "LEGACY"
    /\ ~last.flag
    /\ last.err = errLegacyDisabled

\* C6: when VerifyMAC is given a tag that ComputeMAC returned under key A, on
\* the wrapper that issued it or on a later one, every prefixed entry it
\* invokes is stored under exactly the first NonRawPrefixSize bytes of the tag
\* and is given the rest of it, every RAW entry it invokes is given the whole
\* tag, and if the tag is accepted, the accepting entry carries A's prefix and
\* A's primitive: no entry with another prefix accepts it, and no RAW entry
\* accepts a tag made under a non-raw prefix.
C6_PrefixIsolation ==
    (last.op = "verify" /\ held.has /\ last.mac = held.tag)
    => /\ \A k \in 1..Len(last.calls) :
            LET e == ps.entries[last.calls[k].entry]
            IN  \/ /\ e.prefix # << >>
                   /\ e.prefix = SubSeq(last.mac, 1, NonRawPrefixSize)
                   /\ last.calls[k].tag
                        = SubSeq(last.mac, NonRawPrefixSize + 1, Len(last.mac))
                \/ /\ e.prefix = << >>
                   /\ last.calls[k].tag = last.mac
       /\ last.hit # 0
            => /\ ps.entries[last.hit].prefix = held.key.prefix
               /\ ps.entries[last.hit].prim = held.key.prim

\* A tag made under A's non-raw prefix was accepted by A after another key
\* stored under the same prefix had rejected it.
C6_Witness ==
    /\ VerifiedHeld
    /\ held.key.prefixType # "RAW"
    /\ Len(last.calls) = 2
    /\ last.hit = last.calls[2].entry
    /\ ps.entries[last.calls[1].entry].prim # held.key.prim

\* C7: for a tag longer than NonRawPrefixSize that no prefixed entry accepts
\* (unknown prefix, or known prefix and body rejected), VerifyMAC gives the
\* whole tag to the RAW entries in insertion order, up to the first that
\* accepts, and returns nil exactly if one of them accepts.
C7_RawFallback ==
    (last.op = "verify" /\ Len(last.mac) > NonRawPrefixSize
        /\ PrefixedAccepting(ps, last.mac, last.data) = {})
    => LET raw == RawEntries(ps)
           acc == RawAccepting(ps, last.mac, last.data)
           tried == SelectSeq(last.calls,
                              LAMBDA c : ps.entries[c.entry].prefix = << >>)
       IN  /\ (last.err = NoErr) <=> (acc # {})
           /\ \A k \in 1..Len(tried) :
                  tried[k] = Invocation(raw[k], last.mac)
           /\ IF acc = {}
              THEN Len(tried) = Len(raw)
              ELSE /\ Len(tried) >= 1
                   /\ tried[Len(tried)].entry = last.hit
                   /\ last.hit \in acc
                   /\ \A k \in 1..(Len(tried) - 1) : tried[k].entry \notin acc

\* A raw tag whose first bytes are the prefix of another entry: that entry
\* rejected the body and the RAW entry accepted the whole tag.
C7_Witness ==
    /\ last.op = "verify"
    /\ Len(last.mac) > NonRawPrefixSize
    /\ last.err = NoErr
    /\ Len(last.calls) = 2
    /\ ps.entries[last.calls[1].entry].prefix = SubSeq(last.mac, 1, NonRawPrefixSize)
    /\ ps.entries[last.hit].prefixType = "RAW"

\* C8: wrapping returns an error, and no wrapper, if the primary or any entry
\* is not a MAC primitive, and the not-a-MAC errors are returned in no other
\* case; no call is served without a wrapper, and every entry a call invokes
\* is a MAC primitive.
C8_ConstructionCheck ==
    /\ (wrapper.state # "unbuilt" /\ ~Primary(ps).prim.mac)
          => (wrapper.state = "error" /\ wrapper.err # NoErr)
    /\ (wrapper.state # "unbuilt"
            /\ \E i \in 1..Len(ps.entries) : ~ps.entries[i].prim.mac)
          => (wrapper.state = "error" /\ wrapper.err # NoErr)
    /\ wrapper.err \in {errNotAMAC, errNotAnMAC}
          => \E i \in 1..Len(ps.entries) : ~ps.entries[i].prim.mac
    /\ wrapper.state = "built"
          => \A i \in 1..Len(ps.entries) : ps.entries[i].prim.mac
    /\ wrapper.state # "built" => (last.op = "none" /\ ~held.has)
    /\ \A k \in 1..Len(last.calls) : ps.entries[last.calls[k].entry].prim.mac
    /\ last.err \notin {errNotAMAC, errNotAnMAC}

\* Wrapping has failed for a set whose primary is a MAC primitive and whose
\* other entry is not.
C8_Witness ==
    /\ wrapper.state = "error"
    /\ Primary(ps).prim.mac
    /\ wrapper.err = errNotAnMAC

\* C9: a successful ComputeMAC returns the primary's prefix followed by the
\* primary's computeTag(data), having invoked the primary alone; when the
\* primary's computeTag fails, ComputeMAC returns that error and no tag.
C9_ComputeOutput ==
    last.op = "compute"
    => LET m == computeMac(Primary(ps).prim, last.data)
       IN  /\ last.err = NoErr
              => /\ m.err = NoErr
                 /\ last.tag = Primary(ps).prefix \o m.tag
                 /\ last.calls = << Invocation(ps.primary, << >>) >>
           /\ \A k \in 1..Len(last.calls) : last.calls[k].entry = ps.primary
           /\ (m.err # NoErr /\ last.calls # << >>)
              => (last.err = m.err /\ last.tag = << >>)
           /\ (m.err # NoErr /\ ~(Primary(ps).prefixType = "LEGACY" /\ ~last.flag))
              => last.calls # << >>

\* The second of two keys is primary and not RAW, and has produced a tag.
C9_Witness ==
    /\ last.op = "compute"
    /\ last.err = NoErr
    /\ ps.primary = 2
    /\ Primary(ps).prefixType # "RAW"
    /\ Len(last.tag) > NonRawPrefixSize

---------------------------------------------------------------------------
(* Properties of the rotation specification                                *)

\* The key that issued the held tag is in the set, not as the primary.
HeldKeyRetired ==
    /\ held.has
    /\ Primary(ps) # held.key
    /\ \E i \in 1..Len(ps.entries) : i # ps.primary /\ ps.entries[i] = held.key

\* C5, as stated: a tag returned by ComputeMAC(D) while K1 was primary is
\* accepted by VerifyMAC with D on every later wrapper whose set holds K1 as
\* a non-primary entry.
C5_RotationAnyLength ==
    (VerifiedHeld /\ HeldKeyRetired) => last.err = NoErr

\* C5, amended: a tag longer than NonRawPrefixSize returned by ComputeMAC(D)
\* while K1 was primary is accepted by VerifyMAC with D on every later wrapper
\* whose set holds K1 as a non-primary entry, whatever entries share K1's
\* prefix or precede it.
C5_RotationSafety ==
    (VerifiedHeld /\ HeldKeyRetired /\ Len(held.tag) > NonRawPrefixSize)
        => last.err = NoErr

\* The new primary is stored under K1's prefix, precedes K1 and rejected the
\* tag; K1, no longer primary, accepted it.
C5_Witness ==
    /\ VerifiedHeld
    /\ HeldKeyRetired
    /\ last.err = NoErr
    /\ Len(last.calls) = 2
    /\ last.calls[1].entry = ps.primary
    /\ ps.entries[last.hit] = held.key

---------------------------------------------------------------------------
(* Properties of the concurrent specification                              *)

\* C10, as stated, for the calls that have finished: a VerifyMAC call has the
\* result it has when run alone, and a ComputeMAC call returned the
\* legacy-disabled error or the tag it returns when run alone with the flag
\* on.
C10_TagOrLegacyError ==
    \A p \in Procs :
        procs[p].pc = "done"
        => /\ procs[p].op = "verify"
                => procs[p].err = VerifyMAC(ps, procs[p].mac, procs[p].data).err
           /\ procs[p].op = "compute"
                => \/ procs[p].err = errLegacyDisabled
                   \/ /\ procs[p].err = NoErr
                      /\ ComputeMAC(ps, TRUE, procs[p].data).err = NoErr
                      /\ procs[p].tag = ComputeMAC(ps, TRUE, procs[p].data).tag

\* The results of the calls that have finished: a VerifyMAC call has the
\* result it has when run alone; a ComputeMAC call returned the
\* legacy-disabled error, and then the primary is LEGACY, or the outcome (the
\* tag, or the error of the primary's computeTag) it has when run alone with
\* the flag on.
C10_Results ==
    \A p \in Procs :
        procs[p].pc = "done"
        => /\ procs[p].op = "verify"
                => procs[p].err = VerifyMAC(ps, procs[p].mac, procs[p].data).err
           /\ procs[p].op = "compute"
                => \/ /\ procs[p].err = errLegacyDisabled
                      /\ procs[p].tag = << >>
                      /\ Primary(ps).prefixType = "LEGACY"
                   \/ /\ procs[p].err = ComputeMAC(ps, TRUE, procs[p].data).err
                      /\ procs[p].tag = ComputeMAC(ps, TRUE, procs[p].data).tag

\* C10, amended: no step of a call changes the primitive set or the wrapper,
\* and under every interleaving of calls and flag flips each finished call
\* has the result described by C10_Results.
C10_Concurrent ==
    [](C10_Results) /\ [][ps' = ps /\ wrapper' = wrapper]_vars

\* A ComputeMAC call on a LEGACY primary that read the flag while it was on
\* has returned its tag after the flag was turned off, while another caller
\* is between the two loops of VerifyMAC.
C10_Witness ==
    /\ Primary(ps).prefixType = "LEGACY"
    /\ ~gate
    /\ \E p \in Procs, q \in Procs :
          /\ p # q
          /\ procs[p].pc = "done" /\ procs[p].op = "compute" /\ procs[p].err = NoErr
          /\ procs[q].pc = "raw"

====
